---- MODULE Spec2Model ----
(***************************************************************************)
(* Model of src/index.py: one run of main(), one process.  A run obtains   *)
(* a reading (get_energy_balance under the default retry policy), fans it  *)
(* out through notify_admin (Server酱, e-mail, Telegram, each send under   *)
(* its tenacity retry decorator), then records it in the month's JSON file *)
(* and rebuilds time.json and last_30_records.json.                        *)
(*                                                                         *)
(* Balances are whole numbers of kWh.  The wall clock is a month counter   *)
(* (month 0 is December of year 0, so that month 1 opens a new year); it   *)
(* is read only at source lines 450 and 384, so it advances only right     *)
(* before those reads.  Spec is one run on a fresh checkout; SpecRuns is   *)
(* a sequence of runs of a deployment with no channel configured;          *)
(* SpecStore is one run on a store that many earlier runs filled.          *)
(***************************************************************************)
EXTENDS Integers, Sequences, FiniteSets, TLC

\* ---------------------------------------------------------------- constants
THRESHOLD == 10
EXCELLENT_THRESHOLD == 100
RETRY_ATTEMPTS == 5
RECENT_N == 30

\* ------------------------------------------------------------------- bounds
MaxKeys == 2
MaxMonth == 2
MaxRuns == 3
MaxFaults == 1
MaxPrev == 40
MaxCur == 30

BalanceValues == {10, 11, 100, 101}
KeyTokens == {"", "k"}
Channels == {"serverchan", "email", "telegram"}
NoReading == [lt_Balance |-> -1, ac_Balance |-> -1]
NoRecord == [time |-> <<0, 0>>, lt_Balance |-> -1, ac_Balance |-> -1]
NoNotice == [title |-> "", lt_status |-> "", ac_status |-> "", closing |-> ""]

VARIABLES
    missing_vars,        \* main: some required environment variable is unset
    SERVERCHAN_KEYS,     \* the comma-separated key list, split at the commas
    EMAIL, SMTP_CODE, SMTP_SERVER,
    TELEGRAM_BOT_TOKEN, TELEGRAM_CHAT_ID,
    pc,                  \* position of main()
    rs,                  \* position inside the retrying call in progress
    attempt_number,      \* tenacity's attempt counter of that call
    bodyRuns,            \* executions of the decorated body in that call
    failures,            \* of which raised
    sleeps,              \* waits between attempts in that call
    netcalls,            \* network operations started in that call
    ki,                  \* index of the key the Server酱 loop is at
    posts,               \* POSTs per key position in this dispatch
    delivered,           \* key positions answered with code 0
    response,            \* what the last POST of the loop came back with
    acquired,            \* "pending", "ok" or "failed"
    balances,
    called,              \* channel -> its send function was invoked
    outcome,             \* channel -> "none", "returned" or "raised"
    executed,            \* persistence steps main() has run
    escaped,             \* an exception left main()
    latest_record,
    data,                \* what record_data returned
    notice,              \* title and report lines notify_admin was sending
    fs,                  \* the files below ./page/data
    written,             \* storage artifacts opened for writing in this run
    failed,              \* storage artifacts a dump of this run failed on
    faults,              \* failed dump_data_into_json calls so far
    now,                 \* wall clock, in months
    runs                 \* which invocation of the script this is

env == <<missing_vars, SERVERCHAN_KEYS, EMAIL, SMTP_CODE, SMTP_SERVER,
         TELEGRAM_BOT_TOKEN, TELEGRAM_CHAT_ID, runs>>
call == <<rs, attempt_number, bodyRuns, failures, sleeps, netcalls>>
loop == <<ki, posts, delivered, response>>
chan == <<called, outcome>>
store == <<fs, written, failed, faults>>
rec == <<latest_record, data, notice>>
vars == <<env, pc, call, loop, acquired, balances, chan, executed, escaped,
          rec, store, now>>

\* ------------------------------------------------------------ pure helpers
KeyLists == UNION {[1..n -> KeyTokens] : n \in 0..MaxKeys}
KeyPositions == 1..MaxKeys

\* the environments of a run: every setting of one channel's variables,
\* the two other channels being fully configured
AllKeys == [i \in 1..MaxKeys |-> "k"]
AllSet(n) == [i \in 1..n |-> TRUE]
Environments ==
    {[keys |-> k, mail |-> AllSet(3), bot |-> AllSet(2)] : k \in KeyLists}
    \cup {[keys |-> AllKeys, mail |-> m, bot |-> AllSet(2)] :
             m \in [1..3 -> BOOLEAN]}
    \cup {[keys |-> AllKeys, mail |-> AllSet(3), bot |-> b] :
             b \in [1..2 -> BOOLEAN]}

\* get_cst_time_str('%Y-%m'): the period label of a clock value
PeriodLabel(t) == <<(t + 11) \div 12, ((t + 11) % 12) + 1>>

\* get_cst_time_str('%m-%d %H:%M:%S'): month of the year, then the rest,
\* which no two runs share
RecordTime(t, n) == <<((t + 11) % 12) + 1, n>>

is_low_energy_swapped(b) ==
    b.lt_Balance <= EXCELLENT_THRESHOLD \/ b.ac_Balance <= EXCELLENT_THRESHOLD

is_low_energy(b) == b.lt_Balance <= THRESHOLD \/ b.ac_Balance <= THRESHOLD

\* format_balance_report's get_status: the label of one balance
get_status_inclusive(balance) ==
    IF balance >= EXCELLENT_THRESHOLD THEN "Sufficient"
    ELSE IF balance >= THRESHOLD THEN "Adequate"
    ELSE "Low"

get_status(balance) ==
    IF balance > EXCELLENT_THRESHOLD THEN "Sufficient"
    ELSE IF balance > THRESHOLD THEN "Adequate"
    ELSE "Low"

\* line 446: the title main passes to notify_admin
title_of(b) == IF is_low_energy(b) THEN "alert" ELSE "bulletin"

\* line 342: the closing line of the Telegram text
closing_of(b) == IF is_low_energy(b) THEN "recharge" ELSE "keep watching"

ServerchanConfigured == SERVERCHAN_KEYS # <<>>

EmailConfigured_any == EMAIL \/ SMTP_CODE \/ SMTP_SERVER

EmailConfigured == EMAIL /\ SMTP_CODE /\ SMTP_SERVER

TelegramConfigured == TELEGRAM_BOT_TOKEN /\ TELEGRAM_CHAT_ID

\* tenacity, stop_after_attempt(n) with reraise=True: where a raising
\* attempt leaves the call
AfterRaise_offByOne(n) == IF n > RETRY_ATTEMPTS THEN "raised" ELSE "sleep"

AfterRaise(n) == IF n >= RETRY_ATTEMPTS THEN "raised" ELSE "sleep"

EmptyFs == [root |-> FALSE,
            period |-> [l \in {} |-> <<>>],
            time_json |-> [st |-> "absent", rows |-> <<>>],
            last_30 |-> [st |-> "absent", rows |-> <<>>],
            tokens_zip |-> FALSE]

\* ------------------------------------------------------------------- Init
\* the first process starts on a checkout that holds no data yet
\* a fresh interpreter at line 427
ProcessStart ==
    /\ pc = "main_start"
    /\ rs = "idle"
    /\ attempt_number = 0 /\ bodyRuns = 0 /\ failures = 0
    /\ sleeps = 0 /\ netcalls = 0
    /\ ki = 0
    /\ posts = [i \in KeyPositions |-> 0]
    /\ delivered = {}
    /\ response = "none"
    /\ acquired = "pending"
    /\ balances = NoReading
    /\ called = [c \in Channels |-> FALSE]
    /\ outcome = [c \in Channels |-> "none"]
    /\ executed = {}
    /\ escaped = FALSE
    /\ latest_record = NoRecord
    /\ data = <<>>
    /\ notice = NoNotice
    /\ written = {}
    /\ failed = {}

\* the first run of a deployment: nothing stored yet
FirstRun ==
    /\ ProcessStart
    /\ fs \in {EmptyFs, [EmptyFs EXCEPT !.root = TRUE]}
    /\ faults = 0
    /\ now = 0
    /\ runs = 1

Init ==
    /\ missing_vars \in BOOLEAN
    /\ \E c \in Environments :
         /\ SERVERCHAN_KEYS = c.keys
         /\ EMAIL = c.mail[1] /\ SMTP_CODE = c.mail[2]
         /\ SMTP_SERVER = c.mail[3]
         /\ TELEGRAM_BOT_TOKEN = c.bot[1] /\ TELEGRAM_CHAT_ID = c.bot[2]
    /\ FirstRun

\* --------------------------------------------------------- the retry engine
\* a decorated function is called: attempt 1 is about to run
BeginCall ==
    /\ rs' = "call"
    /\ attempt_number' = 1
    /\ bodyRuns' = 0 /\ failures' = 0 /\ sleeps' = 0 /\ netcalls' = 0
    /\ ki' = 0
    /\ posts' = [i \in KeyPositions |-> 0]
    /\ delivered' = {}
    /\ response' = "none"

\* the call is over and its frame is gone
EndCall ==
    /\ rs' = "idle"
    /\ attempt_number' = 0
    /\ bodyRuns' = 0 /\ failures' = 0 /\ sleeps' = 0 /\ netcalls' = 0
    /\ ki' = 0
    /\ posts' = [i \in KeyPositions |-> 0]
    /\ delivered' = {}
    /\ response' = "none"

\* the body raised
BodyRaises ==
    /\ rs' = AfterRaise(attempt_number)
    /\ failures' = failures + 1

\* the body returned
BodyReturns ==
    /\ rs' = "returned"
    /\ UNCHANGED failures

\* the wait between two attempts
Sleep ==
    /\ rs = "sleep"
    /\ rs' = "call"
    /\ sleeps' = sleeps + 1
    /\ attempt_number' = attempt_number + 1
    /\ UNCHANGED <<env, pc, bodyRuns, failures, netcalls, loop, acquired,
                   balances, chan, executed, escaped, rec, store, now>>

\* ---------------------------------------------------------------- storage
\* a file is absent, present but not decodable as JSON, or holds rows
AbsentFile == [st |-> "absent", rows |-> <<>>]
CorruptFile == [st |-> "corrupt", rows |-> <<>>]
JsonFile(d) == [st |-> "ok", rows |-> d]

PeriodPath(l) == [kind |-> "period", label |-> l]
TimePath == [kind |-> "time_json", label |-> <<0, 0>>]
RecentPath == [kind |-> "last_30", label |-> <<0, 0>>]

FileAt(f, p) ==
    IF p.kind = "time_json" THEN f.time_json
    ELSE IF p.kind = "last_30" THEN f.last_30
    ELSE IF p.label \in DOMAIN f.period THEN f.period[p.label]
    ELSE AbsentFile

SetFile(f, p, c) ==
    IF p.kind = "time_json" THEN [f EXCEPT !.time_json = c]
    ELSE IF p.kind = "last_30" THEN [f EXCEPT !.last_30 = c]
    ELSE [f EXCEPT !.period =
             [l \in (DOMAIN f.period) \cup {p.label} |->
                 IF l = p.label THEN c ELSE f.period[l]]]

\* load_data_from_json(...) or []
LoadOrEmpty(f, p) ==
    IF FileAt(f, p).st = "ok" THEN FileAt(f, p).rows ELSE <<>>

\* what can happen to one dump_data_into_json: makedirs fails, open fails,
\* json.dump fails after the file was truncated, or the write succeeds;
\* every failure is logged and swallowed
DumpOutcomes(f) ==
    IF f.root THEN {"open_fail", "dump_fail", "ok"}
    ELSE {"mkdir_fail", "open_fail", "dump_fail", "ok"}

dump_data_into_json(f, d, p, o) ==
    IF o = "mkdir_fail" THEN f
    ELSE LET g == [f EXCEPT !.root = TRUE]
         IN  IF o = "open_fail" THEN g
             ELSE IF o = "dump_fail" THEN SetFile(g, p, CorruptFile)
             ELSE SetFile(g, p, JsonFile(d))

Opened(p, o) == IF o \in {"dump_fail", "ok"} THEN {p} ELSE {}

Refused(p, o) == IF o = "ok" THEN {} ELSE {p}

\* 1 when the dump went through line 379
Failed(o) == IF o = "ok" THEN 0 ELSE 1

\* a < b in calendar order
LabelBefore(a, b) == a[1] < b[1] \/ (a[1] = b[1] /\ a[2] < b[2])

RECURSIVE SortedDescending(_)
SortedDescending(S) ==
    IF S = {} THEN <<>>
    ELSE LET m == CHOOSE x \in S : \A y \in S : y = x \/ LabelBefore(y, x)
         IN  <<m>> \o SortedDescending(S \ {m})

\* s[:n]
PySuffix_head(s, n) == SubSeq(s, 1, n)

\* s[-n:] of Python, for 0 <= n <= len(s): s[-0:] is the whole of s
PySuffix(s, n) == IF n = 0 THEN s ELSE SubSeq(s, Len(s) - n + 1, Len(s))

\* s[-30:]
LastN(s) == IF Len(s) <= RECENT_N THEN s
            ELSE SubSeq(s, Len(s) - RECENT_N + 1, Len(s))

Min(a, b) == IF a <= b THEN a ELSE b

\* the list update_time_list computes from the directory
json_files(f) == SortedDescending(DOMAIN f.period)

\* the sequence parse_and_update_data writes to last_30_records.json
RecentWindow(f, existing_data, time_file_list) ==
    IF Len(existing_data) < RECENT_N /\ Len(time_file_list) > 1
    THEN LET prev_month_data == LoadOrEmpty(f, PeriodPath(time_file_list[2]))
             records_to_retrieve ==
                 Min(RECENT_N - Len(existing_data), Len(prev_month_data))
         IN  LastN(PySuffix(prev_month_data, records_to_retrieve)
                   \o existing_data)
    ELSE LastN(existing_data)

\* update_time_list on an existing storage root: the files after it, the
\* list it returns and the artifacts it opened
update_time_list(f, o1, o2) ==
    LET f1 == IF f.time_json.st = "absent"
              THEN dump_data_into_json(f, <<>>, TimePath, o1) ELSE f
        w1 == IF f.time_json.st = "absent" THEN Opened(TimePath, o1) ELSE {}
        l  == json_files(f1)
    IN  [fs |-> dump_data_into_json(f1, l, TimePath, o2),
         list |-> l,
         opened |-> w1 \cup Opened(TimePath, o2),
         refused |-> (IF f.time_json.st = "absent"
                      THEN Refused(TimePath, o1) ELSE {})
                     \cup Refused(TimePath, o2),
         failed |-> (IF f.time_json.st = "absent" THEN Failed(o1) ELSE 0)
                    + Failed(o2)]

\* ------------------------------------------------------------------ main()
Readings == [lt_Balance : BalanceValues, ac_Balance : BalanceValues]
PostOutcomes == {"neterr", "nonjson", "fail", "ok"}

\* lines 267-272: which outcome of a POST leaves the loop with an exception
PostRaises_json(o) == o \in {"neterr", "nonjson"}

PostRaises(o) == o = "neterr"
TelegramOutcomes == {"neterr", "nonjson", "not_ok", "ok"}

\* lines 432-439: the required variables, then the monitor
MainStart ==
    /\ pc = "main_start"
    /\ IF missing_vars
       THEN pc' = "done" /\ UNCHANGED <<call, loop>>
       ELSE pc' = "acquire" /\ BeginCall
    /\ UNCHANGED <<env, acquired, balances, chan, executed, escaped, rec,
                   store, now>>

\* one attempt of _get_energy_balance: CAS login by saved token or by
\* password (which saves the new token when it can), then the e-card query
GetEnergyBalance ==
    /\ pc = "acquire" /\ rs = "call"
    /\ bodyRuns' = bodyRuns + 1
    /\ netcalls' = netcalls + 1
    /\ \/ /\ BodyRaises                       \* login fails or raises
          /\ UNCHANGED <<fs, balances>>
       \/ /\ \/ fs.tokens_zip /\ UNCHANGED fs
             \/ \E saved \in BOOLEAN :
                   fs' = [fs EXCEPT !.tokens_zip = @ \/ (fs.root /\ saved)]
          /\ \/ BodyRaises /\ UNCHANGED balances
             \/ \E b \in Readings : BodyReturns /\ balances' = b
    /\ UNCHANGED <<env, pc, attempt_number, sleeps, loop, acquired, chan,
                   executed, escaped, rec, written, failed, faults,
                   now>>

\* line 441: the reading is there
MainAcquired ==
    /\ pc = "acquire" /\ rs = "returned"
    /\ acquired' = "ok"
    /\ pc' = "notify"
    /\ EndCall
    /\ UNCHANGED <<env, balances, chan, executed, escaped, rec, store, now>>

\* lines 442-444: the retries are exhausted, main logs and returns
MainAcquireFailed_continues ==
    /\ pc = "acquire" /\ rs = "raised"
    /\ acquired' = "failed"
    /\ balances' = [lt_Balance |-> 0, ac_Balance |-> 0]
    /\ pc' = "notify"
    /\ EndCall
    /\ UNCHANGED <<env, chan, executed, escaped, rec, store, now>>

MainAcquireFailed ==
    /\ pc = "acquire" /\ rs = "raised"
    /\ acquired' = "failed"
    /\ pc' = "done"
    /\ EndCall
    /\ UNCHANGED <<env, balances, chan, executed, escaped, rec, store, now>>

\* lines 446-447 and notify_admin, lines 330-342: the title, the report
\* and the gate of the two alert channels
NotifyAdmin ==
    /\ pc = "notify"
    /\ LET first == IF is_low_energy(balances) THEN "serverchan"
                    ELSE "telegram"
       IN  /\ pc' = first
           /\ called' = [called EXCEPT ![first] = TRUE]
    /\ notice' = [title |-> title_of(balances),
                  lt_status |-> get_status(balances.lt_Balance),
                  ac_status |-> get_status(balances.ac_Balance),
                  closing |-> closing_of(balances)]
    /\ BeginCall
    /\ UNCHANGED <<env, acquired, balances, outcome, executed, escaped,
                   latest_record, data, store, now>>

\* send_serverchan_notification, lines 254-258: one attempt starts
ServerchanEnter ==
    /\ pc = "serverchan" /\ rs = "call"
    /\ bodyRuns' = bodyRuns + 1
    /\ IF ServerchanConfigured
       THEN rs' = "loop" /\ ki' = 1 /\ UNCHANGED failures
       ELSE BodyReturns /\ UNCHANGED ki
    /\ UNCHANGED <<env, pc, attempt_number, sleeps, netcalls, posts, delivered,
                   response, acquired, balances, chan, executed, escaped, rec,
                   store, now>>

\* lines 259-277: one turn of the loop over the keys
ServerchanKey ==
    /\ pc = "serverchan" /\ rs = "loop"
    /\ IF ki > Len(SERVERCHAN_KEYS)
       THEN BodyReturns
            /\ UNCHANGED <<ki, posts, delivered, response, netcalls>>
       ELSE IF SERVERCHAN_KEYS[ki] = ""
       THEN /\ ki' = ki + 1
            /\ UNCHANGED <<rs, failures, posts, delivered, response, netcalls>>
       ELSE \E o \in PostOutcomes :
              /\ posts' = [posts EXCEPT ![ki] = @ + 1]
              /\ netcalls' = netcalls + 1
              /\ response' = o
              /\ IF PostRaises(o)
                 THEN BodyRaises /\ UNCHANGED <<ki, delivered>>
                 ELSE /\ ki' = ki + 1
                      /\ delivered' = IF o = "ok" THEN delivered \cup {ki}
                                      ELSE delivered
                      /\ UNCHANGED <<rs, failures>>
    /\ UNCHANGED <<env, pc, attempt_number, bodyRuns, sleeps, acquired,
                   balances, chan, executed, escaped, rec, store, now>>

\* send_email_notification, lines 283-300: one attempt
EmailBody ==
    /\ pc = "email" /\ rs = "call"
    /\ bodyRuns' = bodyRuns + 1
    /\ IF EmailConfigured
       THEN /\ netcalls' = netcalls + 1
            /\ BodyRaises \/ BodyReturns
       ELSE BodyReturns /\ UNCHANGED netcalls
    /\ UNCHANGED <<env, pc, attempt_number, sleeps, loop, acquired, balances,
                   chan, executed, escaped, rec, store, now>>

\* send_telegram_notification, lines 306-323: one attempt
TelegramBody ==
    /\ pc = "telegram" /\ rs = "call"
    /\ bodyRuns' = bodyRuns + 1
    /\ IF TelegramConfigured
       THEN /\ netcalls' = netcalls + 1
            /\ \E o \in TelegramOutcomes :
                 IF o = "ok" THEN BodyReturns ELSE BodyRaises
       ELSE BodyReturns /\ UNCHANGED netcalls
    /\ UNCHANGED <<env, pc, attempt_number, sleeps, loop, acquired, balances,
                   chan, executed, escaped, rec, store, now>>

\* line 335 returned: line 336 calls the e-mail send
ServerchanReturned ==
    /\ pc = "serverchan" /\ rs = "returned"
    /\ outcome' = [outcome EXCEPT !["serverchan"] = "returned"]
    /\ pc' = "email"
    /\ called' = [called EXCEPT !["email"] = TRUE]
    /\ BeginCall
    /\ UNCHANGED <<env, acquired, balances, executed, escaped, rec, store, now>>

\* line 336 returned: line 344 calls the Telegram send
EmailReturned ==
    /\ pc = "email" /\ rs = "returned"
    /\ outcome' = [outcome EXCEPT !["email"] = "returned"]
    /\ pc' = "telegram"
    /\ called' = [called EXCEPT !["telegram"] = TRUE]
    /\ BeginCall
    /\ UNCHANGED <<env, acquired, balances, executed, escaped, rec, store, now>>

\* line 344 returned: notify_admin returns to main, line 449
TelegramReturned ==
    /\ pc = "telegram" /\ rs = "returned"
    /\ outcome' = [outcome EXCEPT !["telegram"] = "returned"]
    /\ pc' = "build_record"
    /\ EndCall
    /\ UNCHANGED <<env, acquired, balances, called, executed, escaped, rec,
                   store, now>>

\* a send raised after its last attempt: neither notify_admin nor main has
\* a handler around lines 335, 336, 344 and 447
SendRaised ==
    /\ pc \in Channels /\ rs = "raised"
    /\ outcome' = [outcome EXCEPT ![pc] = "raised"]
    /\ escaped' = TRUE
    /\ pc' = "done"
    /\ EndCall
    /\ UNCHANGED <<env, acquired, balances, called, executed, rec, store, now>>

\* lines 385-387 of record_data: the rows it will write and return; a
\* variant that skips a reading whose balances repeat the last row's
record_data_skipping(existing_data, d) ==
    IF /\ Len(existing_data) > 0
       /\ existing_data[Len(existing_data)].lt_Balance = d.lt_Balance
       /\ existing_data[Len(existing_data)].ac_Balance = d.ac_Balance
    THEN existing_data
    ELSE Append(existing_data, d)

record_data(existing_data, d) == Append(existing_data, d)

\* lines 449-453
BuildRecord ==
    /\ pc = "build_record"
    /\ latest_record' = [time |-> RecordTime(now, runs),
                         lt_Balance |-> balances.lt_Balance,
                         ac_Balance |-> balances.ac_Balance]
    /\ pc' = "record_data"
    /\ UNCHANGED <<env, call, loop, acquired, balances, chan, executed,
                   escaped, data, notice, store, now>>

\* line 455: record_data
RecordData ==
    /\ pc = "record_data"
    /\ LET file_path == PeriodPath(PeriodLabel(now))
           existing_data == record_data(LoadOrEmpty(fs, file_path),
                                        latest_record)
       IN  /\ \E o \in DumpOutcomes(fs) :
                /\ faults + Failed(o) <= MaxFaults
                /\ faults' = faults + Failed(o)
                /\ fs' = dump_data_into_json(fs, existing_data, file_path, o)
                /\ written' = written \cup Opened(file_path, o)
                /\ failed' = failed \cup Refused(file_path, o)
           /\ data' = existing_data
    /\ executed' = executed \cup {"record_data"}
    /\ pc' = "parse"
    /\ UNCHANGED <<env, call, loop, acquired, balances, chan, escaped,
                   latest_record, notice, now>>

\* line 456: parse_and_update_data
ParseAndUpdateData ==
    /\ pc = "parse"
    /\ executed' = executed \cup {"parse_and_update_data"}
    /\ pc' = "done"
    /\ IF ~fs.root
       THEN escaped' = TRUE /\ UNCHANGED store     \* FileNotFoundError
       ELSE \E o1, o2, o3 \in DumpOutcomes(fs) :
              LET u == update_time_list(fs, o1, o2)
                  w == RecentWindow(u.fs, data, u.list)
              IN  /\ faults + u.failed + Failed(o3) <= MaxFaults
                  /\ faults' = faults + u.failed + Failed(o3)
                  /\ fs' = dump_data_into_json(u.fs, w, RecentPath, o3)
                  /\ written' = written \cup u.opened
                                 \cup Opened(RecentPath, o3)
                  /\ failed' = failed \cup u.refused
                                 \cup Refused(RecentPath, o3)
                  /\ UNCHANGED escaped
    /\ UNCHANGED <<env, call, loop, acquired, balances, chan, rec, now>>

\* the wall clock passes into the next month
Tick ==
    /\ pc \in {"build_record", "record_data"}
    /\ now < MaxMonth
    /\ now' = now + 1
    /\ UNCHANGED <<env, pc, call, loop, acquired, balances, chan, executed,
                   escaped, rec, store>>

\* the scheduler starts the script again: a new process, the same files
NextRun ==
    /\ pc = "done"
    /\ runs < MaxRuns
    /\ runs' = runs + 1
    /\ pc' = "main_start"
    /\ acquired' = "pending"
    /\ balances' = NoReading
    /\ called' = [c \in Channels |-> FALSE]
    /\ outcome' = [c \in Channels |-> "none"]
    /\ executed' = {}
    /\ escaped' = FALSE
    /\ latest_record' = NoRecord
    /\ data' = <<>>
    /\ notice' = NoNotice
    /\ written' = {}
    /\ failed' = {}
    /\ UNCHANGED <<missing_vars, SERVERCHAN_KEYS, EMAIL, SMTP_CODE,
                   SMTP_SERVER, TELEGRAM_BOT_TOKEN, TELEGRAM_CHAT_ID, call,
                   loop, fs, faults, now>>

Next ==
    \/ MainStart
    \/ GetEnergyBalance
    \/ MainAcquired
    \/ MainAcquireFailed
    \/ NotifyAdmin
    \/ ServerchanEnter
    \/ ServerchanKey
    \/ EmailBody
    \/ TelegramBody
    \/ Sleep
    \/ ServerchanReturned
    \/ EmailReturned
    \/ TelegramReturned
    \/ SendRaised
    \/ BuildRecord
    \/ RecordData
    \/ ParseAndUpdateData
    \/ Tick

Spec == Init /\ [][Next]_vars

\* a deployment with no channel configured, run after run from an empty
\* store; the meter shows the same low reading every time
QuietReading == [lt_Balance |-> 10, ac_Balance |-> 11]

NoChannel ==
    /\ missing_vars = FALSE
    /\ SERVERCHAN_KEYS = <<>>
    /\ EMAIL = FALSE /\ SMTP_CODE = FALSE /\ SMTP_SERVER = FALSE
    /\ TELEGRAM_BOT_TOKEN = FALSE /\ TELEGRAM_CHAT_ID = FALSE

InitRuns == NoChannel /\ FirstRun

NextRuns ==
    \/ MainStart
    \/ GetEnergyBalance /\ balances' \in {balances, QuietReading}
    \/ MainAcquired
    \/ MainAcquireFailed
    \/ NotifyAdmin
    \/ ServerchanEnter
    \/ EmailBody
    \/ TelegramBody
    \/ Sleep
    \/ ServerchanReturned
    \/ EmailReturned
    \/ TelegramReturned
    \/ BuildRecord
    \/ RecordData
    \/ ParseAndUpdateData
    \/ Tick
    \/ NextRun

SpecRuns == InitRuns /\ [][NextRuns]_vars

\* one run over a store that earlier runs have filled: p readings in the
\* file of month 0 and c readings in the file of month 1, every write of
\* those runs having succeeded
StoredRows(t, first, n) ==
    [i \in 1..n |-> [time |-> RecordTime(t, first + i - 1),
                     lt_Balance |-> QuietReading.lt_Balance,
                     ac_Balance |-> QuietReading.ac_Balance]]

FilledStore(p, c) ==
    LET labels == {PeriodLabel(0) : x \in 1..Min(p, 1)}
                  \cup {PeriodLabel(1) : x \in 1..Min(c, 1)}
        period == [l \in labels |->
                     IF l = PeriodLabel(0)
                     THEN JsonFile(StoredRows(0, 1, p))
                     ELSE JsonFile(StoredRows(1, p + 1, c))]
        f      == [EmptyFs EXCEPT !.root = TRUE, !.period = period]
    IN  [f EXCEPT !.time_json = JsonFile(json_files(f)),
                  !.last_30 = JsonFile(LastN(StoredRows(0, 1, p)
                                             \o StoredRows(1, p + 1, c)))]

InitStore ==
    /\ NoChannel
    /\ ProcessStart
    /\ \E p \in 0..MaxPrev, c \in 0..MaxCur :
          /\ p + c > 0
          /\ fs = FilledStore(p, c)
          /\ runs = p + c + 1
    /\ faults = 0
    /\ now = 1

NextStore ==
    \/ MainStart
    \/ GetEnergyBalance /\ balances' \in {balances, QuietReading}
    \/ MainAcquired
    \/ MainAcquireFailed
    \/ NotifyAdmin
    \/ ServerchanEnter
    \/ EmailBody
    \/ TelegramBody
    \/ Sleep
    \/ ServerchanReturned
    \/ EmailReturned
    \/ TelegramReturned
    \/ BuildRecord
    \/ RecordData
    \/ ParseAndUpdateData
    \/ Tick

SpecStore == InitStore /\ [][NextStore]_vars

TypeOK ==
    /\ pc \in {"main_start", "acquire", "notify", "serverchan", "email",
               "telegram", "build_record", "record_data", "parse", "done"}
    /\ rs \in {"idle", "call", "loop", "sleep", "returned", "raised"}
    /\ attempt_number \in 0..RETRY_ATTEMPTS
    /\ now \in 0..MaxMonth

\* ------------------------------------------------------------------ claims
LowReading ==
    balances.lt_Balance <= THRESHOLD \/ balances.ac_Balance <= THRESHOLD

HasConfig(c) ==
    IF c = "serverchan" THEN Len(SERVERCHAN_KEYS) > 0
    ELSE IF c = "email" THEN EMAIL /\ SMTP_CODE /\ SMTP_SERVER
    ELSE TELEGRAM_BOT_TOKEN /\ TELEGRAM_CHAT_ID

\* C1: in a run with a low reading, when one channel has raised after its
\* last retry, the send of every other configured channel was still invoked
C1_SiblingSendsStillExecuted ==
    (pc = "done" /\ acquired = "ok" /\ LowReading)
        => \A c \in Channels :
              outcome[c] = "raised"
                  => \A d \in Channels \ {c} : HasConfig(d) => called[d]

\* C2: in a run that obtained a reading, a channel that raised after its
\* last retry does not keep record_data and parse_and_update_data from
\* running, nor the reading from being appended to the month's file
C2_PersistenceAfterChannelFailure ==
    (pc = "done" /\ acquired = "ok"
       /\ \E c \in Channels : outcome[c] = "raised")
        => /\ {"record_data", "parse_and_update_data"} \subseteq executed
           /\ PeriodPath(PeriodLabel(now)) \in written

\* C3: no exception leaves main(), whatever fails in the run
C3_MainNeverRaises == pc = "done" => ~escaped

\* C4: the Server酱 send and the e-mail send are invoked only in a run
\* whose reading is low (lt_Balance <= 10 or ac_Balance <= 10)
C4_AlertChannelsOnlyWhenLow ==
    \A c \in {"serverchan", "email"} :
        (called[c] \/ pc = c) => (acquired = "ok" /\ LowReading)

C4_Witness ==
    /\ called["serverchan"] /\ called["email"]
    /\ balances.lt_Balance > THRESHOLD
    /\ balances.ac_Balance <= THRESHOLD

\* C5: every run that obtained a reading invokes the Telegram send,
\* whatever the severity and whatever became of the two other sends
C5_TelegramAlwaysInvoked ==
    (pc = "done" /\ acquired = "ok") => called["telegram"]

\* C6: a send that raises on every attempt runs its body exactly
\* RETRY_ATTEMPTS times, waits only between attempts and then raises; a
\* send one of whose attempts succeeds returns with that attempt, and
\* once a send has returned or raised its body does not run again
C6_RetryExactlyMaxAttempts ==
    [][/\ (pc' \in Channels /\ rs' = "raised")
            => /\ bodyRuns' = RETRY_ATTEMPTS
               /\ failures' = RETRY_ATTEMPTS
               /\ sleeps' = RETRY_ATTEMPTS - 1
       /\ (pc' \in Channels /\ rs' = "returned")
            => /\ bodyRuns' <= RETRY_ATTEMPTS
               /\ failures' = bodyRuns' - 1
               /\ sleeps' = bodyRuns' - 1
       /\ (pc \in Channels /\ rs \in {"returned", "raised"})
            => bodyRuns' = 0 /\ sleeps' = 0]_vars

C6_Witness ==
    /\ pc = "telegram" /\ rs = "raised"
    /\ TELEGRAM_BOT_TOKEN /\ TELEGRAM_CHAT_ID
    /\ bodyRuns = RETRY_ATTEMPTS

\* C7: when a Server酱 dispatch is over, every non-blank key of the list
\* has had a delivery attempt, whatever failed for the keys before it
C7_EveryKeyAttempted ==
    (pc = "serverchan" /\ rs \in {"returned", "raised"})
        => \A i \in 1..Len(SERVERCHAN_KEYS) :
              SERVERCHAN_KEYS[i] # "" => posts[i] >= 1

\* C8: within one Server酱 dispatch, retries included, a key that was
\* delivered to successfully gets no further POST
C8_NoSecondPostAfterSuccess ==
    [][(pc = "serverchan" /\ pc' = "serverchan")
          => \A i \in delivered : posts'[i] = posts[i]]_vars

\* C9: when the reading could not be obtained, the run ends with no send
\* invoked on any channel and none of the month file, time.json and
\* last_30_records.json written
C9_AcquisitionFailureAbortsRun ==
    acquired = "failed"
        => /\ pc = "done"
           /\ \A c \in Channels : ~called[c] /\ outcome[c] = "none"
           /\ executed = {} /\ written = {}
           /\ DOMAIN fs.period = {}
           /\ fs.time_json.st = "absent" /\ fs.last_30.st = "absent"

C9_Witness == acquired = "failed" /\ pc = "done" /\ ~escaped

\* C10: a send on a channel whose configuration is absent returns on its
\* first attempt, without raising, without a network call and without a
\* retry wait
C10_AbsentConfigReturnsAtOnce ==
    \A c \in Channels :
        (pc = c /\ ~HasConfig(c))
            => /\ rs \in {"call", "returned"}
               /\ rs = "call" => bodyRuns = 0
               /\ rs = "returned" => bodyRuns = 1
               /\ netcalls = 0 /\ sleeps = 0 /\ failures = 0

C10_Witness ==
    /\ pc = "email" /\ rs = "returned"
    /\ EMAIL /\ ~SMTP_CODE /\ SMTP_SERVER
    /\ bodyRuns = 1


\* ------------------------------------------------------- the stored files
\* the period the run recorded its reading in
CurrentLabel == PeriodLabel(now)

\* the rows a period file holds; an unreadable file holds none
Entries(l) ==
    IF l \in DOMAIN fs.period /\ fs.period[l].st = "ok"
    THEN fs.period[l].rows ELSE <<>>

\* the periods on disk that lie before the current one, and the latest of
\* them
OlderLabels == {l \in DOMAIN fs.period : LabelBefore(l, CurrentLabel)}
PreviousLabel ==
    CHOOSE l \in OlderLabels : \A m \in OlderLabels : m = l \/ LabelBefore(m, l)

\* the last k elements of s
LastK(s, k) == [i \in 1..k |-> s[Len(s) - k + i]]

AtMost30(n) == IF n < 30 THEN n ELSE 30

\* this run wrote the artifact and no write of it failed
Persisted(p) == p \in written /\ p \notin failed

IsPrefix(s, t) == Len(s) <= Len(t) /\ SubSeq(t, 1, Len(s)) = s

\* C12: across any sequence of runs, after every record_data call the rows
\* the period file held before the call are a prefix of the rows it holds
\* after it: no stored reading is ever deleted or reordered
C12_PeriodFileAppendOnly ==
    [][(pc = "record_data" /\ pc' = "parse")
       => IsPrefix(FileAt(fs, PeriodPath(CurrentLabel)).rows,
                   FileAt(fs', PeriodPath(CurrentLabel)).rows)]_vars


\* C13: when the storage root is missing at persistence time, record_data
\* does not create it and store the reading; update_time_list then finds no
\* root and fails with the not-found error
C13_MissingRootNotCreated ==
    [][(pc = "record_data" /\ ~fs.root /\ pc' = "parse")
       => (~fs'.root /\ fs'.period = fs.period)]_vars


\* time.json holds every label of an existing period file once, later
\* periods first
IndexConsistent ==
    /\ fs.time_json.st = "ok"
    /\ {fs.time_json.rows[i] : i \in DOMAIN fs.time_json.rows}
           = DOMAIN fs.period
    /\ \A i, j \in DOMAIN fs.time_json.rows :
           i < j => LabelBefore(fs.time_json.rows[j], fs.time_json.rows[i])

\* C14: at the end of every run that executed the persistence step, the
\* persisted index lists exactly the labels of the existing period files,
\* without duplicates, sorted descending by calendar order
C14_IndexMatchesPeriodFiles ==
    (pc = "done" /\ "record_data" \in executed) => IndexConsistent


SameBalances(a, b) ==
    a.lt_Balance = b.lt_Balance /\ a.ac_Balance = b.ac_Balance

\* C15: every call of record_data appends the reading to what the period
\* file held, also when its balances equal those of the last stored entry;
\* a write that goes through leaves the file one entry longer each time
C15_RecordAlwaysAppends ==
    [][(pc = "record_data" /\ pc' = "parse")
       => LET old == Entries(CurrentLabel)
              file_path == PeriodPath(CurrentLabel)
          IN  /\ data' = old \o <<latest_record>>
              /\ file_path \notin failed'
                 => /\ FileAt(fs', file_path) = JsonFile(data')
                    /\ Len(FileAt(fs', file_path).rows) = Len(old) + 1]_vars

\* the same reading recorded by two runs: two entries
C15_Witness ==
    /\ pc = "done"
    /\ runs = 2
    /\ Persisted(PeriodPath(CurrentLabel))
    /\ Len(Entries(CurrentLabel)) = 2
    /\ SameBalances(Entries(CurrentLabel)[1], Entries(CurrentLabel)[2])
    /\ Entries(CurrentLabel)[2] = latest_record


\* the severity label of a balance
StatusOf(b) ==
    IF b > 100 THEN "Sufficient" ELSE IF b > 10 THEN "Adequate" ELSE "Low"

\* C16: a balance is labelled Sufficient above 100, Adequate above 10 and up
\* to 100, Low at 10 or below; the notification takes the alert title and
\* the recharge closing line, and the alert-only channels are called,
\* exactly when at least one of the two balances is labelled Low
C16_StatusLabelsAndGating ==
    notice # NoNotice
    => LET low == notice.lt_status = "Low" \/ notice.ac_status = "Low"
       IN  /\ notice.lt_status = StatusOf(balances.lt_Balance)
           /\ notice.ac_status = StatusOf(balances.ac_Balance)
           /\ is_low_energy(balances) <=> low
           /\ notice.title = "alert" <=> low
           /\ notice.closing = "recharge" <=> low
           /\ called["serverchan"] <=> low
           /\ (pc = "done" /\ ~escaped) => (called["email"] <=> low)

\* one balance at the threshold, the other exactly at the upper threshold
C16_Witness ==
    /\ balances.lt_Balance = 100
    /\ balances.ac_Balance = 10
    /\ notice.lt_status = "Adequate"
    /\ notice.ac_status = "Low"
    /\ notice.title = "alert"
    /\ notice.closing = "recharge"
    /\ called["serverchan"]
    /\ called["email"]


\* C17: a Server酱 key whose response body is not JSON is a per-key failure
\* that is not retried: the loop goes on to the next key, no retry wait
\* follows from it and send_serverchan_notification does not raise because
\* of it
C17_NonJsonResponseNotRetried ==
    [][/\ (pc = "serverchan" /\ posts' # posts /\ response' = "nonjson")
          => /\ ki' = ki + 1
             /\ rs' = "loop"
             /\ failures' = failures
             /\ sleeps' = sleeps
             /\ attempt_number' = attempt_number
       /\ response' = "nonjson" => rs' \notin {"sleep", "raised"}]_vars

\* the send returned on its first attempt although the last key answered
\* with a non-JSON body
C17_Witness ==
    /\ pc = "serverchan"
    /\ rs = "returned"
    /\ response = "nonjson"
    /\ attempt_number = 1
    /\ failures = 0
    /\ sleeps = 0
    /\ ki = Len(SERVERCHAN_KEYS) + 1


\* C18: every entry of a period file carries a timestamp of the month the
\* file is labelled with: the label a reading is stored under is derived
\* from the reading's own timestamp
C18_LabelFromReadingTimestamp ==
    \A l \in DOMAIN fs.period :
        \A i \in DOMAIN fs.period[l].rows : fs.period[l].rows[i].time[1] = l[2]


Range(s) == {s[i] : i \in DOMAIN s}

\* C19: the entries parse_and_update_data puts in front of the current
\* period's entries come from the immediately preceding period, the latest
\* existing period strictly older than the one the reading was recorded in,
\* never from the current period itself or from an older one
C19_BackfillFromPrecedingPeriod ==
    (pc = "done" /\ Persisted(RecentPath))
    => \A r \in Range(fs.last_30.rows) :
           \/ r \in Range(data)
           \/ OlderLabels # {} /\ r \in Range(Entries(PreviousLabel))


\* C20: after any sequence of runs, runs with failed file writes included,
\* every reading in last_30_records.json is also in some period file
C20_RecentWindowBackedByPeriodFiles ==
    pc = "done"
    => \A r \in Range(fs.last_30.rows) :
           \E l \in DOMAIN fs.period : r \in Range(fs.period[l].rows)

====
